---- MODULE Spec2Model ----
(***************************************************************************)
(* A model of the di dependency-injection container: the solver            *)
(* (Container.solve), the per-call task engine (Task.gather_params,        *)
(* Task.gather_new_tasks, SyncTask/AsyncTask.compute), the scope stack     *)
(* with global and local scopes, and execute_sync / execute_async.         *)
(***************************************************************************)
EXTENDS Integers, Sequences, FiniteSets, TLC

(***************************************************************************)
(* Bounds of the model.                                                    *)
(***************************************************************************)
NumCalls == 3
MaxEdges == 3
MaxProviders == 4
MaxParams == 4
NumProcs == 2
MaxCalls == 2
MaxEnters == 3
MaxReentries == 4
MaxScopeEntries == 2
MaxBinds == 1
MaxOperations == 4
MaxLinks == 3

Calls == 1..NumCalls
Procs == 1..NumProcs
ScopeTokens == {"app", "request"}

VARIABLES
    phase,      \* "declare" | "solved": where the scenario stands
    params,     \* params[c]: what get_dependencies() returns for callable c
    kinds,      \* kinds[c]: "sync" | "async" | "syncgen" | "asyncgen"
    root,       \* the descriptor handed to Container.solve
    binds,      \* ContainerState.binds: callable -> replacement descriptor
    solved,     \* what Container.solve returned (or the error it raised)
    frames,     \* the scope frames: scope token, result cache, release stack
    rootstate,  \* the ContainerState the container was built with: its stack
    shadow,     \* shadow[p]: the ContainerState copies set in p's context
    cms,        \* cms[p]: the scope contexts task p has entered, innermost last
    pc,         \* pc[p]: "idle" | "exec" (inside execute_sync/execute_async)
    own,        \* own[p]: the running call entered the execution scope itself
    mode,       \* mode[p]: "sync" (execute_sync) | "async" (execute_async)
    results,    \* ExecutionState.results of p's call
    dependency_counts, \* ExecutionState.dependency_counts of p's call
    dependants, \* ExecutionState.dependants of p's call
    queue,      \* the executor's queue of p's call
    inflight,   \* the async tasks of p's call that are awaiting their provider
    to_cache,   \* the tasks p's call commits to the caches on success
    invoked,    \* history: invoked[p][t], provider calls of t in p's call
    opened,     \* history: opened[c], provider calls of callable c so far
    teardowns,  \* history: the values whose teardown ran, in order
    ncalls,     \* history: ncalls[p], execute calls task p has started
    values,     \* values[p]: the overrides handed to p's call
    nenters,    \* history: scopes entered so far through a scope context
    outcome     \* outcome[p]: what p's last execute call returned or raised

graphvars == <<phase, params, kinds, root, binds, solved>>
scopevars == <<rootstate, shadow, cms>>
callvars  == <<pc, own, mode, values, results, dependency_counts, dependants, queue,
               inflight, to_cache, invoked, outcome>>
vars == <<graphvars, scopevars, callvars, frames, opened, teardowns, ncalls,
          nenters>>

(***************************************************************************)
(* Provider descriptors.  `site` tells apart two descriptor objects that   *)
(* carry the same call, scope and shared flag.                             *)
(***************************************************************************)
DependsAlwaysShared(call, scope, shared, site) ==
    [call |-> call, scope |-> scope, shared |-> TRUE, site |-> site]

Depends(call, scope, shared, site) ==
    [call |-> call, scope |-> scope, shared |-> shared, site |-> site]

\* Dependant.__hash__/__eq__: the same object, or the same callable when
\* both descriptors are shared.  The scope plays no part.
Equivalent(a, b) ==
    a.call = b.call /\ (a = b \/ (a.shared /\ b.shared))

\* `dep in dep_registry`, the registry being keyed by hash/eq
InRegistry(reg, dep) == \E i \in 1..Len(reg) : Equivalent(reg[i], dep)

\* dep_registry[dep]: the recorded descriptor equivalent to dep
Registered(reg, dep) ==
    reg[CHOOSE i \in 1..Len(reg) : Equivalent(reg[i], dep)]

NoBinds == [c \in {} |-> 0]

\* get_params: the parameters of dep, bound callables swapped for their bind
get_paramsSameScope(bnd, prm, dep) ==
    [j \in 1..Len(prm[dep.call]) |->
        IF prm[dep.call][j].call \in DOMAIN bnd
           /\ bnd[prm[dep.call][j].call].scope = prm[dep.call][j].scope
        THEN bnd[prm[dep.call][j].call]
        ELSE prm[dep.call][j]]

get_params(bnd, prm, dep) ==
    [j \in 1..Len(prm[dep.call]) |->
        IF prm[dep.call][j].call \in DOMAIN bnd
        THEN bnd[prm[dep.call][j].call]
        ELSE prm[dep.call][j]]

\* check_equivalent: the error raised, "none" when the scopes agree
check_equivalent(reg, dep) ==
    IF InRegistry(reg, dep) /\ dep.scope # Registered(reg, dep).scope
    THEN "ScopeConflict"
    ELSE "none"

\* `if subdep not in dep_registry: q.append(subdep)`
Enqueue(reg, subdeps) ==
    SelectSeq(subdeps, LAMBDA s : ~InRegistry(reg, s))

\* `dep_dag[dep].append(subdep)` for every parameter
LinkOnlyNew(reg, subdeps) ==
    SelectSeq(subdeps, LAMBDA s : ~InRegistry(reg, s))

Link(reg, subdeps) == subdeps

\* The walk of Container.solve: `while q: dep = q.popleft() ...`
RECURSIVE SolveWalk(_, _, _)
SolveWalk(bnd, prm, st) ==
    IF st.q = <<>> \/ st.err # "none" THEN st
    ELSE LET dep == Head(st.q)
         IN  IF InRegistry(st.reg, dep)
             THEN SolveWalk(bnd, prm,
                      [st EXCEPT !.q = Tail(st.q),
                                 !.err = check_equivalent(st.reg, dep)])
             ELSE LET reg1 == Append(st.reg, dep)
                      ps   == get_params(bnd, prm, dep)
                  IN  SolveWalk(bnd, prm,
                          [q       |-> Tail(st.q) \o Enqueue(reg1, ps),
                           reg     |-> reg1,
                           dep_dag |-> st.dep_dag @@ (dep :> Link(reg1, ps)),
                           err     |-> "none"])

SeqToSet(s) == {s[i] : i \in 1..Len(s)}

\* The recorded descriptors that name dep among their parameters
DependantsIn(reg, dag, dep) ==
    {d \in SeqToSet(reg) : \E j \in 1..Len(dag[d]) : Equivalent(dag[d][j], dep)}

\* topsort: dependants first; <<>> paired with "Circular" when a cycle
\* leaves descriptors that can never be emitted
RECURSIVE TopsortFrom(_, _, _)
TopsortFrom(reg, dag, done) ==
    LET left  == {i \in 1..Len(reg) : reg[i] \notin SeqToSet(done)}
        ready == {i \in left : DependantsIn(reg, dag, reg[i]) \subseteq SeqToSet(done)}
    IN  IF left = {} THEN [err |-> "none", order |-> done]
        ELSE IF ready = {} THEN [err |-> "Circular", order |-> <<>>]
        ELSE LET i == CHOOSE k \in ready : \A m \in ready : k <= m
             IN  TopsortFrom(reg, dag, Append(done, reg[i]))

topsort(reg, dag) == TopsortFrom(reg, dag, <<>>)

\* _build_task: the task of a descriptor names the tasks of its parameters
build_task(reg, dag, dep) ==
    [dependant    |-> dep,
     dependencies |-> [j \in 1..Len(dag[dep]) |-> Registered(reg, dag[dep][j])]]

\* _build_tasks, keyed by the recorded descriptor
build_tasks(reg, dag) ==
    [d \in SeqToSet(reg) |-> build_task(reg, dag, d)]

Failed(err, dependency) ==
    [status |-> err, dependency |-> dependency, order |-> <<>>,
     tasks |-> NoBinds, dependency_dag |-> NoBinds]

\* Container.solve
Solve(bnd, prm, rootdep) ==
    LET dependency == IF rootdep.call \in DOMAIN bnd THEN bnd[rootdep.call]
                      ELSE rootdep
        walk == SolveWalk(bnd, prm,
                    [q |-> <<dependency>>, reg |-> <<>>,
                     dep_dag |-> NoBinds, err |-> "none"])
    IN  IF walk.err # "none" THEN Failed(walk.err, dependency)
        ELSE LET ts == topsort(walk.reg, walk.dep_dag)
             IN  IF ts.err # "none" THEN Failed(ts.err, dependency)
                 ELSE [status     |-> "ok",
                       dependency |-> dependency,
                       order      |-> ts.order,
                       tasks      |-> build_tasks(walk.reg, walk.dep_dag),
                       dependency_dag |->
                           [d \in SeqToSet(walk.reg) |->
                               {Registered(walk.reg, walk.dep_dag[d][j]) :
                                    j \in 1..Len(walk.dep_dag[d])}]]

(***************************************************************************)
(* Scope frames and container states.  A ContainerState is the stack of    *)
(* the frames it holds, outermost first; frames are shared by reference    *)
(* between a state and the copies made of it.                              *)
(***************************************************************************)
ExecutionScope == "None"

NoValue == [call |-> 0, inst |-> 0, args |-> <<>>]
NoCache == [c \in {} |-> NoValue]

\* The None that the last task to finish hands to the executor
Sentinel == Depends(0, "None", FALSE, 0)

NewFrame(s, a) ==
    [scope |-> s, cache |-> NoCache, release |-> <<>>, async |-> a, live |-> TRUE]

DeadFrame ==
    [scope |-> "None", cache |-> NoCache, release |-> <<>>, async |-> FALSE,
     live |-> FALSE]

Reverse(s) == [i \in 1..Len(s) |-> s[Len(s) + 1 - i]]

\* The exit of a frame's release stack: the teardowns it runs, in order
Unwound(fr, fid) == Reverse(fr[fid].release)

Last(s) == s[Len(s)]

\* Container._state: the ContainerState held by the context of task p
State(p) == IF shadow[p] = <<>> THEN rootstate ELSE Last(shadow[p])

\* Container.scopes
Scopes(fr, st) == {fr[st[i]].scope : i \in 1..Len(st)}

\* state.stacks[scope]
FrameOf(fr, st, s) == st[CHOOSE i \in 1..Len(st) : fr[st[i]].scope = s]

\* Frames are named by the task that entered them and their depth among
\* the frames that task holds: one per scope token and the execution scope
FrameIds == Procs \X (1..(Cardinality(ScopeTokens) + 1))

\* The name of the frame task p enters next
FreshFrame(p) == <<p, Len(cms[p]) + 1>>

PutFrame(fr, i, f) == [fr EXCEPT ![i] = f]

\* cached_values.contains / cached_values.get: the innermost frame wins
CachedAt(fr, st, c) == {i \in 1..Len(st) : c \in DOMAIN fr[st[i]].cache}

cache_contains(fr, st, c) == CachedAt(fr, st, c) # {}

cache_get(fr, st, c) ==
    LET i == CHOOSE k \in CachedAt(fr, st, c) :
                 \A m \in CachedAt(fr, st, c) : m <= k
    IN  fr[st[i]].cache[c]

(***************************************************************************)
(* plan_execution: validation, seeding of results, counters, ready queue.  *)
(***************************************************************************)
PlanFailed(err) ==
    [err |-> err, results |-> NoBinds, dependency_counts |-> NoBinds,
     dependants |-> NoBinds, queue |-> <<>>, to_cache |-> <<>>]

plan_execution(fr, st, slv, vals, validate) ==
    LET tasks      == DOMAIN slv.tasks
        byValue    == {t \in tasks : t.call \in DOMAIN vals}
        byCache    == {t \in tasks \ byValue :
                          t.shared /\ cache_contains(fr, st, t.call)}
        unresolved == tasks \ (byValue \cup byCache)
        first      == Reverse(slv.order)
    IN  IF validate /\ \E t \in tasks : t.scope \notin Scopes(fr, st)
        THEN PlanFailed("ScopeNotFound")
        ELSE [err     |-> "none",
              results |-> [t \in byValue \cup byCache |->
                              IF t \in byValue THEN vals[t.call]
                              ELSE cache_get(fr, st, t.call)],
              dependency_counts |->
                  [t \in unresolved |->
                      Cardinality(slv.dependency_dag[t] \cap unresolved)],
              dependants |->
                  [t \in unresolved |->
                      SelectSeq(first, LAMBDA d :
                          d \in unresolved /\ t \in slv.dependency_dag[d])],
              queue |->
                  SelectSeq(first, LAMBDA t :
                      t \in unresolved
                      /\ slv.dependency_dag[t] \cap unresolved = {}),
              to_cache |->
                  SelectSeq(first, LAMBDA t : t \in unresolved /\ t.shared)]

(***************************************************************************)
(* The task engine.                                                        *)
(***************************************************************************)
\* Task.gather_params reads results[t] for every parameter: KeyError if one
\* is missing
HasParams(res, task) ==
    \A j \in 1..Len(task.dependencies) : task.dependencies[j] \in DOMAIN res

gather_paramsReversed(res, task) ==
    [j \in 1..Len(task.dependencies) |->
        res[task.dependencies[Len(task.dependencies) + 1 - j]]]

gather_params(res, task) ==
    [j \in 1..Len(task.dependencies) |-> res[task.dependencies[j]]]

\* `state.dependency_counts[dependant] -= 1`
DecrementToZero(count) == 0

Decrement(count) == count - 1

\* `if state.dependency_counts[dependant] == 0`
NowFreeAlways(count) == TRUE

NowFreeNever(count) == FALSE

NowFree(count) == count = 0

\* The for loop of gather_new_tasks over state.dependants[self]; a counter
\* that is not in the map is a KeyError
ReleaseFirst(counts, ds, new) ==
    IF ds = <<>> \/ Head(ds) \notin DOMAIN counts
    THEN [counts |-> counts, new |-> new,
          err |-> IF ds = <<>> THEN "none" ELSE "KeyError"]
    ELSE LET d  == Head(ds)
             c1 == [counts EXCEPT ![d] = Decrement(@)]
         IN  [counts |-> c1,
              new    |-> IF NowFree(c1[d]) THEN Append(new, d) ELSE new,
              err    |-> "none"]

RECURSIVE Release(_, _, _)
Release(counts, ds, new) ==
    IF ds = <<>> THEN [counts |-> counts, new |-> new, err |-> "none"]
    ELSE IF Head(ds) \notin DOMAIN counts
    THEN [counts |-> counts, new |-> new, err |-> "KeyError"]
    ELSE LET d  == Head(ds)
             c1 == [counts EXCEPT ![d] = Decrement(@)]
         IN  Release(c1, Tail(ds),
                     IF NowFree(c1[d]) THEN Append(new, d) ELSE new)

\* `if not state.dependency_counts`
AllDoneAlways(counts) == TRUE

AllDone(counts) == DOMAIN counts = {}

\* Task.gather_new_tasks
gather_new_tasks(counts, deps, self) ==
    LET r == Release(counts, deps[self], <<>>)
    IN  IF r.err # "none" THEN r
        ELSE IF self \notin DOMAIN r.counts
        THEN [counts |-> r.counts, new |-> r.new, err |-> "KeyError"]
        ELSE IF r.counts[self] = 0
        THEN LET c2 == [t \in DOMAIN r.counts \ {self} |-> r.counts[t]]
             IN  [counts |-> c2,
                  new    |-> IF AllDone(c2) THEN Append(r.new, Sentinel)
                             ELSE r.new,
                  err    |-> "none"]
        ELSE r

\* `state.results[self] = ...`
Store(res, t, v) ==
    [x \in DOMAIN res \cup {t} |-> IF x = t THEN v ELSE res[x]]

\* Container._update_cache: the for loop over to_cache
update_cacheSkipped(fr, st, res, tc) == [frames |-> fr, err |-> "none"]

update_cacheAllResults(fr, st, res, tc) ==
    LET into(f) == {t \in DOMAIN res : /\ t.scope \in Scopes(fr, st)
                                       /\ FrameOf(fr, st, t.scope) = f}
    IN  [frames |->
            [f \in DOMAIN fr |->
                [fr[f] EXCEPT !.cache =
                    [c \in DOMAIN @ \cup {t.call : t \in into(f)} |->
                        IF \E t \in into(f) : t.call = c
                        THEN res[CHOOSE t \in into(f) : t.call = c]
                        ELSE @[c]]]],
         err |-> "none"]

RECURSIVE update_cache(_, _, _, _)
update_cache(fr, st, res, tc) ==
    IF tc = <<>> THEN [frames |-> fr, err |-> "none"]
    ELSE LET dep == Head(tc)
         IN  IF dep \notin DOMAIN res \/ dep.scope \notin Scopes(fr, st)
             THEN [frames |-> fr, err |-> "KeyError"]
             ELSE LET fid == FrameOf(fr, st, dep.scope)
                  IN  update_cache(
                          [fr EXCEPT ![fid].cache =
                              [c \in DOMAIN @ \cup {dep.call} |->
                                  IF c = dep.call THEN res[dep] ELSE @[c]]],
                          st, res, Tail(tc))

IsGenerator(t) == kinds[t.call] \in {"syncgen", "asyncgen"}
IsAsync(t) == kinds[t.call] \in {"async", "asyncgen"}

\* The value a provider call returns: which callable, which call of it, and
\* the arguments it was given
Call(t, args) ==
    [call |-> t.call, inst |-> opened[t.call] + 1, args |-> args]

\* What an operation handed back to task p: a result, or the error raised
\* (with the scope token a scope error is about)
Outcome(status, v, s) == [status |-> status, value |-> v, scope |-> s]

\* The execute calls started so far
TotalCalls ==
    LET RECURSIVE Sum(_)
        Sum(p) == IF p = 0 THEN 0 ELSE ncalls[p] + Sum(p - 1)
    IN  Sum(NumProcs)

\* functools.partial(self.compute, state): the task handle a call hands to
\* the executor is bound to the results of that call
BoundResultsOfFirst(p) == results[1]

BoundResults(p) == results[p]

\* The with-block of execute_sync/execute_async is left: result or error is
\* handed to the caller, and the execution scope is exited if it was
\* entered by this call
\* `with cm:` around the call: the scope the call entered is exited when the
\* block is left, by return or by error
ExitsOwnScopeOnReturn(p, status) == own[p] /\ status = "ok"

ExitsOwnScope(p, status) == own[p]

Leave(p, fr, status, v) ==
    /\ outcome' = [outcome EXCEPT ![p] = Outcome(status, v, "None")]
    /\ pc' = [pc EXCEPT ![p] = "idle"]
    /\ IF ExitsOwnScope(p, status)
       THEN /\ frames' = [fr EXCEPT ![Last(State(p))] = DeadFrame]
            /\ teardowns' = teardowns \o Unwound(fr, Last(State(p)))
            /\ shadow' = [shadow EXCEPT ![p] = SubSeq(@, 1, Len(@) - 1)]
       ELSE /\ frames' = fr
            /\ UNCHANGED <<teardowns, shadow>>
    /\ own' = [own EXCEPT ![p] = FALSE]
    /\ mode' = [mode EXCEPT ![p] = "none"]
    /\ results' = [results EXCEPT ![p] = NoBinds]
    /\ dependency_counts' = [dependency_counts EXCEPT ![p] = NoBinds]
    /\ dependants' = [dependants EXCEPT ![p] = NoBinds]
    /\ queue' = [queue EXCEPT ![p] = <<>>]
    /\ inflight' = [inflight EXCEPT ![p] = {}]
    /\ to_cache' = [to_cache EXCEPT ![p] = <<>>]

\* `if self._execution_scope in self.scopes: cm = nullcontext()`, else the
\* call enters the execution scope itself
EntersExecutionScopeAlways(p) == TRUE

EntersExecutionScope(p) == ExecutionScope \notin Scopes(frames, State(p))

\* execute_sync / execute_async up to the executor: the execution scope is
\* entered unless it is on the stack, and the call is planned
BeginExecute(p, m, vals, validate) ==
    /\ pc[p] = "idle"
    /\ solved.status = "ok"
    /\ TotalCalls < MaxCalls
    /\ ncalls' = [ncalls EXCEPT ![p] = @ + 1]
    /\ values' = [values EXCEPT ![p] = vals]
    /\ invoked' = [invoked EXCEPT ![p] = [t \in DOMAIN solved.tasks |-> 0]]
    /\ LET mine == EntersExecutionScope(p)
           fid  == FreshFrame(p)
           fr1  == IF mine
                   THEN PutFrame(frames, fid, NewFrame(ExecutionScope, m = "async"))
                   ELSE frames
           st1  == IF mine THEN Append(State(p), fid) ELSE State(p)
           plan == plan_execution(fr1, st1, solved, vals, validate)
       IN  IF plan.err # "none" \/ plan.queue = <<>>
           THEN /\ outcome' = [outcome EXCEPT ![p] =
                       IF plan.err # "none"
                       THEN Outcome(plan.err, NoValue, "None")
                       ELSE Outcome("ok", plan.results[solved.dependency],
                                    "None")]
                /\ UNCHANGED <<pc, own, mode, results, dependency_counts,
                               dependants, queue, inflight, to_cache,
                               frames, shadow>>
           ELSE /\ pc' = [pc EXCEPT ![p] = "exec"]
                /\ own' = [own EXCEPT ![p] = mine]
                /\ mode' = [mode EXCEPT ![p] = m]
                /\ frames' = fr1
                /\ shadow' = IF mine THEN [shadow EXCEPT ![p] = Append(@, st1)]
                             ELSE shadow
                /\ results' = [results EXCEPT ![p] = plan.results]
                /\ dependency_counts' =
                       [dependency_counts EXCEPT ![p] = plan.dependency_counts]
                /\ dependants' = [dependants EXCEPT ![p] = plan.dependants]
                /\ queue' = [queue EXCEPT ![p] = plan.queue]
                /\ inflight' = [inflight EXCEPT ![p] = {}]
                /\ to_cache' = [to_cache EXCEPT ![p] = plan.to_cache]
                /\ UNCHANGED outcome
    /\ UNCHANGED <<graphvars, rootstate, cms, opened, teardowns, nenters>>

\* What stops a task before its provider is called: "none" if nothing does
RefusalUnchecked(p, t) ==
    IF IsAsync(t) /\ mode[p] # "async" THEN "ExecutorKindMismatch"
    ELSE IF ~HasParams(BoundResults(p), solved.tasks[t]) THEN "KeyError"
    ELSE IF IsGenerator(t) /\ t.scope \notin Scopes(frames, State(p))
         THEN "KeyError"
    ELSE "none"

Refusal(p, t) ==
    IF IsAsync(t) /\ mode[p] # "async" THEN "ExecutorKindMismatch"
    ELSE IF ~HasParams(BoundResults(p), solved.tasks[t]) THEN "KeyError"
    ELSE IF IsGenerator(t) /\ t.scope \notin Scopes(frames, State(p))
         THEN "KeyError"
    ELSE IF kinds[t.call] = "asyncgen"
            /\ ~frames[FrameOf(frames, State(p), t.scope)].async
         THEN "IncompatibleDependency"
    ELSE "none"

\* stack.enter_context / stack.enter_async_context: the teardown of the
\* opened resource is pushed on the release stack of the task's scope
RegisterInnermost(fr, st, t, v) ==
    IF IsGenerator(t)
    THEN [fr EXCEPT ![Last(st)].release = Append(@, v)]
    ELSE fr

Register(fr, st, t, v) ==
    IF IsGenerator(t)
    THEN [fr EXCEPT ![FrameOf(fr, st, t.scope)].release = Append(@, v)]
    ELSE fr

\* The executor takes a sync task: SyncTask.compute
ComputeSync(p) ==
    /\ pc[p] = "exec"
    /\ queue[p] # <<>>
    /\ Head(queue[p]) # Sentinel
    /\ ~IsAsync(Head(queue[p]))
    /\ LET t == Head(queue[p])
       IN  IF Refusal(p, t) # "none"
           THEN /\ Leave(p, frames, Refusal(p, t), NoValue)
                /\ UNCHANGED <<invoked, opened>>
           ELSE LET v   == Call(t, gather_params(BoundResults(p),
                                                  solved.tasks[t]))
                    res == Store(results[p], t, v)
                    g   == gather_new_tasks(dependency_counts[p],
                                            dependants[p], t)
                IN  /\ invoked' = [invoked EXCEPT ![p][t] = @ + 1]
                    /\ opened' = [opened EXCEPT ![t.call] = @ + 1]
                    /\ IF g.err # "none"
                       THEN Leave(p, Register(frames, State(p), t, v),
                                  g.err, NoValue)
                       ELSE /\ results' = [results EXCEPT ![p] = res]
                            /\ dependency_counts' =
                                   [dependency_counts EXCEPT ![p] = g.counts]
                            /\ queue' = [queue EXCEPT ![p] = Tail(@) \o g.new]
                            /\ frames' = Register(frames, State(p), t, v)
                            /\ UNCHANGED <<pc, own, mode, dependants,
                                           inflight, to_cache, outcome,
                                           shadow, teardowns>>
    /\ UNCHANGED <<graphvars, rootstate, cms, ncalls, values, nenters>>

\* The executor takes an async task: AsyncTask.compute up to its await
StartAsync(p) ==
    /\ pc[p] = "exec"
    /\ queue[p] # <<>>
    /\ Head(queue[p]) # Sentinel
    /\ IsAsync(Head(queue[p]))
    /\ LET t == Head(queue[p])
       IN  IF Refusal(p, t) # "none"
           THEN /\ Leave(p, frames, Refusal(p, t), NoValue)
                /\ UNCHANGED <<invoked, opened>>
           ELSE LET v == Call(t, gather_params(BoundResults(p),
                                                solved.tasks[t]))
                IN  /\ queue' = [queue EXCEPT ![p] = Tail(@)]
                    /\ inflight' = [inflight EXCEPT ![p] =
                           @ \cup {[task |-> t, value |-> v]}]
                    /\ invoked' = [invoked EXCEPT ![p][t] = @ + 1]
                    /\ opened' = [opened EXCEPT ![t.call] = @ + 1]
                    /\ UNCHANGED <<pc, own, mode, results, dependency_counts,
                                   dependants, to_cache, outcome, frames,
                                   shadow, teardowns>>
    /\ UNCHANGED <<graphvars, rootstate, cms, ncalls, values, nenters>>

\* An awaited provider returns: AsyncTask.compute from its await on
FinishAsync(p) ==
    /\ pc[p] = "exec"
    /\ \E f \in inflight[p] :
        LET res == Store(results[p], f.task, f.value)
            g   == gather_new_tasks(dependency_counts[p], dependants[p],
                                    f.task)
        IN  IF g.err # "none"
            THEN Leave(p, Register(frames, State(p), f.task, f.value),
                       g.err, NoValue)
            ELSE /\ results' = [results EXCEPT ![p] = res]
                 /\ dependency_counts' =
                        [dependency_counts EXCEPT ![p] = g.counts]
                 /\ queue' = [queue EXCEPT ![p] = @ \o g.new]
                 /\ inflight' = [inflight EXCEPT ![p] = @ \ {f}]
                 /\ frames' = Register(frames, State(p), f.task, f.value)
                 /\ UNCHANGED <<pc, own, mode, dependants, to_cache, outcome,
                                shadow, teardowns>>
    /\ UNCHANGED <<invoked, opened>>
    /\ UNCHANGED <<graphvars, rootstate, cms, ncalls, values, nenters>>

\* What a call that is aborted by a provider's error leaves in the frames:
\* the error passes _update_cache by
AbortedCommitted(fr, st, res, tc) ==
    update_cache(fr, st, res,
                 SelectSeq(tc, LAMBDA t : t \in DOMAIN res
                                          /\ t.scope \in Scopes(fr, st))).frames

Aborted(fr, st, res, tc) == fr

\* The executor takes a sync task and its provider raises: no further task
\* is started, the tasks in flight are awaited
RaiseSync(p) ==
    /\ pc[p] = "exec"
    /\ queue[p] # <<>>
    /\ Head(queue[p]) # Sentinel
    /\ ~IsAsync(Head(queue[p]))
    /\ Refusal(p, Head(queue[p])) = "none"
    /\ invoked' = [invoked EXCEPT ![p][Head(queue[p])] = @ + 1]
    /\ pc' = [pc EXCEPT ![p] = "failing"]
    /\ queue' = [queue EXCEPT ![p] = <<>>]
    /\ UNCHANGED <<graphvars, scopevars, frames, teardowns, ncalls, values,
                   nenters, opened, own, mode, results, dependency_counts,
                   dependants, inflight, to_cache, outcome>>

\* An awaited provider raises
RaiseAsync(p) ==
    /\ pc[p] \in {"exec", "failing"}
    /\ \E f \in inflight[p] : inflight' = [inflight EXCEPT ![p] = @ \ {f}]
    /\ pc' = [pc EXCEPT ![p] = "failing"]
    /\ queue' = [queue EXCEPT ![p] = <<>>]
    /\ UNCHANGED <<graphvars, scopevars, frames, teardowns, ncalls, values,
                   nenters, opened, invoked, own, mode, results,
                   dependency_counts, dependants, to_cache, outcome>>

\* An awaited provider returns after another provider of the call has
\* raised: AsyncTask.compute from its await on, the tasks it frees are not
\* started
DrainAsync(p) ==
    /\ pc[p] = "failing"
    /\ \E f \in inflight[p] :
        LET g == gather_new_tasks(dependency_counts[p], dependants[p], f.task)
        IN  /\ results' = [results EXCEPT ![p] = Store(@, f.task, f.value)]
            /\ frames' = Register(frames, State(p), f.task, f.value)
            /\ dependency_counts' =
                   IF g.err = "none"
                   THEN [dependency_counts EXCEPT ![p] = g.counts]
                   ELSE dependency_counts
            /\ inflight' = [inflight EXCEPT ![p] = @ \ {f}]
    /\ UNCHANGED <<graphvars, scopevars, teardowns, ncalls, values, nenters,
                   opened, invoked, pc, own, mode, queue, dependants,
                   to_cache, outcome>>

\* No task of the failed call is in flight any more: the provider's error
\* leaves the executor and the with-block of execute_sync / execute_async
AbortExecute(p) ==
    /\ pc[p] = "failing"
    /\ inflight[p] = {}
    /\ Leave(p, Aborted(frames, State(p), results[p], to_cache[p]),
             "ProviderError", NoValue)
    /\ UNCHANGED <<graphvars, rootstate, cms, ncalls, values, nenters, opened,
                   invoked>>

\* The executor takes the sentinel and returns: _update_cache, then
\* `return results[solved.dependency]`
FinishExecute(p) ==
    /\ pc[p] = "exec"
    /\ queue[p] # <<>>
    /\ Head(queue[p]) = Sentinel
    /\ LET u == update_cache(frames, State(p), results[p], to_cache[p])
       IN  IF u.err # "none" \/ solved.dependency \notin DOMAIN results[p]
           THEN Leave(p, u.frames, "KeyError", NoValue)
           ELSE Leave(p, u.frames, "ok", results[p][solved.dependency])
    /\ UNCHANGED <<invoked, opened>>
    /\ UNCHANGED <<graphvars, rootstate, cms, ncalls, values, nenters>>

(***************************************************************************)
(* Entering and leaving scopes.                                            *)
(***************************************************************************)
\* Another task holds a copy of a state that lists frame fid
HeldElsewhere(p, fid) ==
    \E q \in Procs \ {p} : \E k \in 1..Len(shadow[q]) :
        fid \in SeqToSet(shadow[q][k])

Remove(st, fid) == SelectSeq(st, LAMBDA x : x # fid)

\* Container.enter_global_scope, entered: the frame is pushed on the state
\* the context of task p holds
\* The check made when a scope context is entered: the token is on the stack
ScopeTakenNever(fr, st, s) == FALSE

ScopeTaken(fr, st, s) == s \in Scopes(fr, st)

EnterGlobal(p, s) ==
    /\ pc[p] = "idle"
    /\ nenters' = nenters + 1
    /\ IF ScopeTaken(frames, State(p), s)
       THEN /\ outcome' = [outcome EXCEPT ![p] =
                   Outcome("DuplicateScope", NoValue, s)]
            /\ UNCHANGED <<frames, rootstate, shadow, cms>>
       ELSE /\ frames' = PutFrame(frames, FreshFrame(p), NewFrame(s, TRUE))
            /\ IF shadow[p] = <<>>
               THEN /\ rootstate' = Append(rootstate, FreshFrame(p))
                    /\ UNCHANGED shadow
               ELSE /\ shadow' = [shadow EXCEPT ![p][Len(shadow[p])] =
                           Append(@, FreshFrame(p))]
                    /\ UNCHANGED rootstate
            /\ cms' = [cms EXCEPT ![p] = Append(@,
                   [kind |-> "global", scope |-> s, fid |-> FreshFrame(p)])]
            /\ UNCHANGED outcome
    /\ UNCHANGED <<graphvars, pc, own, mode, values, results,
                   dependency_counts, dependants, queue, inflight, to_cache,
                   invoked, opened, teardowns, ncalls>>

\* `if scope in self._state.stacks`
AlreadyEnteredAnywhere(p, s) ==
    \E q \in Procs : s \in Scopes(frames, State(q))

AlreadyEntered(p, s) == s \in Scopes(frames, State(p))

\* Container.enter_local_scope, entered: a copy of the state is set in the
\* context of task p and the frame is pushed on the copy
EnterLocal(p, s) ==
    /\ pc[p] = "idle"
    /\ nenters' = nenters + 1
    /\ IF AlreadyEntered(p, s)
       THEN /\ outcome' = [outcome EXCEPT ![p] =
                   Outcome("DuplicateScope", NoValue, s)]
            /\ UNCHANGED <<frames, shadow, cms>>
       ELSE /\ frames' = PutFrame(frames, FreshFrame(p), NewFrame(s, TRUE))
            /\ shadow' = [shadow EXCEPT ![p] =
                   Append(@, Append(State(p), FreshFrame(p)))]
            /\ cms' = [cms EXCEPT ![p] = Append(@,
                   [kind |-> "local", scope |-> s, fid |-> FreshFrame(p)])]
            /\ UNCHANGED outcome
    /\ UNCHANGED <<graphvars, rootstate, pc, own, mode, values, results,
                   dependency_counts, dependants, queue, inflight, to_cache,
                   invoked, opened, teardowns, ncalls>>

\* `cm = container.enter_local_scope(s)` was called while s was not on the
\* stack, and the context it returned is entered only now
EnterLater(p, s) ==
    /\ pc[p] = "idle"
    /\ nenters' = nenters + 1
    /\ IF ScopeTaken(frames, State(p), s)
       THEN /\ outcome' = [outcome EXCEPT ![p] =
                   Outcome("DuplicateScope", NoValue, s)]
            /\ UNCHANGED <<frames, shadow, cms>>
       ELSE /\ frames' = PutFrame(frames, FreshFrame(p), NewFrame(s, TRUE))
            /\ shadow' = [shadow EXCEPT ![p] =
                   Append(@, Append(State(p), FreshFrame(p)))]
            /\ cms' = [cms EXCEPT ![p] = Append(@,
                   [kind |-> "local", scope |-> s, fid |-> FreshFrame(p)])]
            /\ UNCHANGED outcome
    /\ UNCHANGED <<graphvars, rootstate, pc, own, mode, values, results,
                   dependency_counts, dependants, queue, inflight, to_cache,
                   invoked, opened, teardowns, ncalls>>

\* The innermost scope context of task p exits: its release stack runs in
\* reverse, the frame is dropped, and a local scope restores the context
UnwindScope(p) ==
    /\ pc[p] = "idle"
    /\ cms[p] # <<>>
    /\ ~HeldElsewhere(p, Last(cms[p]).fid)
    /\ frames' = [frames EXCEPT ![Last(cms[p]).fid] = DeadFrame]
    /\ teardowns' = teardowns \o Unwound(frames, Last(cms[p]).fid)
    /\ IF Last(cms[p]).kind = "local"
       THEN /\ shadow' = [shadow EXCEPT ![p] = SubSeq(@, 1, Len(@) - 1)]
            /\ UNCHANGED rootstate
       ELSE IF shadow[p] = <<>>
       THEN /\ rootstate' = Remove(rootstate, Last(cms[p]).fid)
            /\ UNCHANGED shadow
       ELSE /\ shadow' = [shadow EXCEPT ![p][Len(shadow[p])] =
                   Remove(@, Last(cms[p]).fid)]
            /\ UNCHANGED rootstate
    /\ cms' = [cms EXCEPT ![p] = SubSeq(@, 1, Len(@) - 1)]
    /\ UNCHANGED <<graphvars, pc, own, mode, values, results,
                   dependency_counts, dependants, queue, inflight, to_cache,
                   invoked, opened, ncalls, nenters>>

ExitScope(p) == UnwindScope(p) /\ UNCHANGED outcome

\* The scope exits and a teardown of its release stack raises: the other
\* teardowns are run all the same and the error is raised after them
ExitScopeRaising(p) ==
    /\ cms[p] # <<>>
    /\ frames[Last(cms[p]).fid].release # <<>>
    /\ UnwindScope(p)
    /\ outcome' = [outcome EXCEPT ![p] =
           Outcome("TeardownError", NoValue, Last(cms[p]).scope)]

(***************************************************************************)
(* The solve scenario: a provider graph is declared one parameter at a     *)
(* time, in any order, and then solved.                                    *)
(***************************************************************************)
Unsolved == Failed("unsolved", Depends(0, "app", TRUE, 0))

EdgeCount(prm) ==
    LET RECURSIVE Sum(_)
        Sum(c) == IF c = 0 THEN 0 ELSE Len(prm[c]) + Sum(c - 1)
    IN  Sum(Cardinality(DOMAIN prm))

\* No call is running and none has run
IdleCalls ==
    /\ pc = [p \in Procs |-> "idle"]
    /\ own = [p \in Procs |-> FALSE]
    /\ mode = [p \in Procs |-> "none"]
    /\ results = [p \in Procs |-> NoBinds]
    /\ dependency_counts = [p \in Procs |-> NoBinds]
    /\ dependants = [p \in Procs |-> NoBinds]
    /\ queue = [p \in Procs |-> <<>>]
    /\ inflight = [p \in Procs |-> {}]
    /\ to_cache = [p \in Procs |-> <<>>]
    /\ invoked = [p \in Procs |-> NoBinds]
    /\ values = [p \in Procs |-> NoCache]
    /\ outcome = [p \in Procs |-> Outcome("none", NoValue, "None")]
    /\ teardowns = <<>>
    /\ ncalls = [p \in Procs |-> 0]
    /\ nenters = 0

\* No scope has been entered: the state after Container()
NoScopes ==
    /\ frames = [f \in FrameIds |-> DeadFrame]
    /\ rootstate = <<>>
    /\ shadow = [p \in Procs |-> <<>>]
    /\ cms = [p \in Procs |-> <<>>]

InitSolve ==
    /\ phase = "declare"
    /\ params = [c \in Calls |-> <<>>]
    /\ kinds = [c \in Calls |-> "sync"]
    /\ \E s \in ScopeTokens : root = Depends(1, s, TRUE, 0)
    /\ binds = NoBinds
    /\ solved = Unsolved
    /\ opened = [c \in Calls |-> 0]
    /\ NoScopes
    /\ IdleCalls

\* A parameter `= Depends(c2, scope=s)` is added to callable c
Declare(c, c2, s) ==
    /\ phase = "declare"
    /\ EdgeCount(params) < MaxEdges
    /\ params' = [params EXCEPT ![c] =
           Append(@, Depends(c2, s, TRUE, 0))]
    /\ UNCHANGED <<phase, kinds, root, binds, solved>>
    /\ UNCHANGED <<scopevars, callvars, frames, opened, teardowns, ncalls,
                   nenters>>

\* container.solve(root)
DoSolve ==
    /\ phase = "declare"
    /\ solved' = Solve(binds, params, root)
    /\ phase' = "solved"
    /\ UNCHANGED <<params, kinds, root, binds>>
    /\ UNCHANGED <<scopevars, callvars, frames, opened, teardowns, ncalls,
                   nenters>>

NextSolve ==
    \/ \E c \in Calls, c2 \in Calls, s \in ScopeTokens : Declare(c, c2, s)
    \/ DoSolve

SpecSolve == InitSolve /\ [][NextSolve]_vars

(***************************************************************************)
(* The execute scenario: an acyclic provider graph is declared (a callable *)
(* only names callables declared after it), solved, and executed once by   *)
(* task 1 inside the global scope "app", the executor advancing            *)
(* independent async tasks concurrently.                                   *)
(***************************************************************************)
Providers == 1..MaxProviders

InitExec ==
    /\ phase = "declare"
    /\ params = [c \in Providers |-> <<>>]
    /\ kinds = [c \in Providers |-> "sync"]
    /\ root = Depends(1, "app", TRUE, 0)
    /\ binds = NoBinds
    /\ solved = Unsolved
    /\ frames = [f \in FrameIds |->
                   IF f = <<1, 1>> THEN NewFrame("app", TRUE) ELSE DeadFrame]
    /\ rootstate = <<<<1, 1>>>>
    /\ shadow = [p \in Procs |-> <<>>]
    /\ cms = [p \in Procs |->
                IF p = 1
                THEN <<[kind |-> "global", scope |-> "app", fid |-> <<1, 1>>]>>
                ELSE <<>>]
    /\ opened = [c \in Providers |-> 0]
    /\ IdleCalls

\* A parameter `= Depends(c2, scope="app")` is added to callable c
DeclareParam(c, c2) ==
    /\ phase = "declare"
    /\ c < c2
    /\ EdgeCount(params) < MaxParams
    /\ params' = [params EXCEPT ![c] = Append(@, Depends(c2, "app", TRUE, 0))]
    /\ UNCHANGED <<phase, kinds, root, binds, solved>>
    /\ UNCHANGED <<scopevars, callvars, frames, opened, teardowns, ncalls,
                   nenters>>

\* container.solve(root); the providers are all functions or all coroutines
SolveDeclared(k) ==
    /\ phase = "declare"
    /\ solved' = Solve(binds, params, root)
    /\ kinds' = [c \in Providers |-> k]
    /\ phase' = "solved"
    /\ UNCHANGED <<params, root, binds>>
    /\ UNCHANGED <<scopevars, callvars, frames, opened, teardowns, ncalls,
                   nenters>>

ExecuteOnce(m, validate) ==
    /\ ncalls[1] = 0
    /\ BeginExecute(1, m, NoCache, validate)

NextExec ==
    \/ \E c \in Providers, c2 \in Providers : DeclareParam(c, c2)
    \/ \E k \in {"sync", "async"} : SolveDeclared(k)
    \/ \E m \in {"sync", "async"}, validate \in BOOLEAN : ExecuteOnce(m, validate)
    \/ ComputeSync(1)
    \/ StartAsync(1)
    \/ FinishAsync(1)
    \/ FinishExecute(1)

SpecExec == InitExec /\ [][NextExec]_vars

\* The same over graphs of fewer parameters, with an executor whose loop
\* keeps taking what is queued and providers that return when awaited
NextRun ==
    \/ \E c \in Providers, c2 \in Providers :
           EdgeCount(params) < MaxLinks /\ DeclareParam(c, c2)
    \/ \E k \in {"sync", "async"} : SolveDeclared(k)
    \/ \E m \in {"sync", "async"}, validate \in BOOLEAN : ExecuteOnce(m, validate)
    \/ ComputeSync(1)
    \/ StartAsync(1)
    \/ FinishAsync(1)
    \/ FinishExecute(1)

SpecRunFair ==
    /\ InitExec
    /\ [][NextRun]_vars
    /\ WF_vars(ComputeSync(1))
    /\ WF_vars(StartAsync(1))
    /\ WF_vars(FinishAsync(1))
    /\ WF_vars(FinishExecute(1))

\* A value the caller supplies for callable c in `values`
Supplied(c) == [call |-> c, inst |-> 0, args |-> <<>>]

\* execute_sync / execute_async with no `values` or a value for callable c
ExecuteWith(m, c, validate) ==
    /\ ncalls[1] = 0
    /\ BeginExecute(1, m, IF c = 0 THEN NoCache ELSE c :> Supplied(c),
                    validate)

\* The same graphs executed with or without a supplied value, which leaves
\* the tasks of that callable out of the unresolved ones
NextValues ==
    \/ \E c \in Providers, c2 \in Providers :
           EdgeCount(params) < MaxLinks /\ DeclareParam(c, c2)
    \/ \E k \in {"sync", "async"} : SolveDeclared(k)
    \/ \E m \in {"sync", "async"}, c \in 0..MaxProviders, validate \in BOOLEAN :
           ExecuteWith(m, c, validate)
    \/ ComputeSync(1)
    \/ StartAsync(1)
    \/ FinishAsync(1)
    \/ FinishExecute(1)

SpecValues == InitExec /\ [][NextValues]_vars

(***************************************************************************)
(* The request scenario, after docs/src/manual_wiring.py: the controller   *)
(* (callable 1, a coroutine) takes a Request (callable 2) and a resource   *)
(* R (callable 3, an async generator).  Request is bound to an unwired     *)
(* descriptor of scope "request" and R to a descriptor of scope "app".     *)
(* Sibling tasks enter and leave scopes and execute the solved plan        *)
(* concurrently, with or without a Request of their own in `values`.       *)
(***************************************************************************)
Controller == 1
Request == 2
Resource == 3

\* The task that runs framework(): it alone enters the global scope "app"
Framework == 1

\* The Request object a framework makes for its n-th call
RequestOf(n) == [call |-> Request, inst |-> 0 - n, args |-> <<>>]

Init ==
    /\ phase = "solved"
    /\ params = [c \in 1..3 |->
                   IF c = Controller
                   THEN <<Depends(Request, "None", TRUE, 0),
                          Depends(Resource, "None", TRUE, 0)>>
                   ELSE <<>>]
    /\ kinds = <<"async", "sync", "asyncgen">>
    /\ root = Depends(Controller, "request", TRUE, 0)
    /\ binds = (Request :> Depends(Request, "request", TRUE, 0))
               @@ (Resource :> Depends(Resource, "app", TRUE, 0))
    /\ solved = Solve(binds, params, root)
    /\ opened = [c \in 1..3 |-> 0]
    /\ NoScopes
    /\ IdleCalls

\* container.execute_async(solved, values=...): validate_scopes is left at
\* its default, True
ExecuteUnvalidated(p, vals) == BeginExecute(p, "async", vals, FALSE)

Execute(p, vals) == BeginExecute(p, "async", vals, TRUE)

\* framework() enters the global scope "app"; every task may serve a
\* request as execute_request does, with a Request of its own in `values`
Next ==
    \E p \in Procs :
        \/ p = Framework /\ nenters < MaxEnters /\ EnterGlobal(p, "app")
        \/ nenters < MaxEnters /\ EnterLocal(p, "request")
        \/ ExitScope(p)
        \/ Execute(p, Request :> RequestOf(TotalCalls + 1))
        \/ StartAsync(p)
        \/ FinishAsync(p)
        \/ FinishExecute(p)

Spec == Init /\ [][Next]_vars

(***************************************************************************)
(* The request scenario with one task: the framework task enters and       *)
(* leaves "app" and "request" and executes the plan call after call, with  *)
(* a Request in `values` or with the Request its provider makes.           *)
(***************************************************************************)
NextSeq ==
    \/ nenters < MaxReentries /\ EnterGlobal(Framework, "app")
    \/ nenters < MaxReentries /\ EnterLocal(Framework, "request")
    \/ ExitScope(Framework)
    \/ Execute(Framework, NoCache)
    \/ Execute(Framework, Request :> RequestOf(TotalCalls + 1))
    \/ ComputeSync(Framework)
    \/ StartAsync(Framework)
    \/ FinishAsync(Framework)
    \/ FinishExecute(Framework)

SpecSeq == Init /\ [][NextSeq]_vars

(***************************************************************************)
(* Binds: a diamond of four callables (1 takes 2 and 3, which both take 4) *)
(* whose parameters are declared with either scope, shared or not; any     *)
(* callable may be bound to a descriptor of any callable before the root   *)
(* is solved.                                                              *)
(***************************************************************************)
InitBind ==
    /\ phase = "declare"
    /\ \E s2, s4, t4 \in ScopeTokens, h2, h4, g4 \in BOOLEAN :
           params = <<<<Depends(2, s2, h2, 0), Depends(3, "app", TRUE, 0)>>,
                      <<Depends(4, s4, h4, 0)>>,
                      <<Depends(4, t4, g4, 0)>>,
                      <<>>>>
    /\ kinds = [c \in 1..4 |-> "sync"]
    /\ \E s \in ScopeTokens : root = Depends(1, s, TRUE, 0)
    /\ binds = NoBinds
    /\ solved = Unsolved
    /\ opened = [c \in 1..4 |-> 0]
    /\ NoScopes
    /\ IdleCalls

\* container.bind(Dependant(c2, scope=s), c)
Bind(c, c2, s) ==
    /\ phase = "declare"
    /\ Cardinality(DOMAIN binds) < MaxBinds
    /\ c \notin DOMAIN binds
    /\ binds' = binds @@ (c :> Depends(c2, s, TRUE, 1))
    /\ UNCHANGED <<phase, params, kinds, root, solved>>
    /\ UNCHANGED <<scopevars, callvars, frames, opened, teardowns, ncalls,
                   nenters>>

NextBind ==
    \/ \E c, c2 \in DOMAIN params, s \in ScopeTokens : Bind(c, c2, s)
    \/ DoSolve

SpecBind == InitBind /\ [][NextBind]_vars

(***************************************************************************)
(* Scopes alone: the tasks of the request scenario enter and leave global  *)
(* and local scopes under either token, with contexts entered when they    *)
(* are made or later.                                                      *)
(***************************************************************************)
NextScopes ==
    \E p \in Procs :
        \/ \E s \in ScopeTokens : nenters < MaxEnters /\ EnterGlobal(p, s)
        \/ \E s \in ScopeTokens : nenters < MaxEnters /\ EnterLocal(p, s)
        \/ \E s \in ScopeTokens : nenters < MaxEnters /\ EnterLater(p, s)
        \/ ExitScope(p)

SpecScopes == Init /\ [][NextScopes]_vars

(***************************************************************************)
(* The resource scenario: a handler (callable 1, execution scope) takes a  *)
(* resource of scope "app" (callable 3) that is built on another resource  *)
(* of scope "app" (callable 2), and a resource of the execution scope      *)
(* (callable 5) that is built on a value declared shared=False in scope    *)
(* "app" (callable 4).  The providers are all functions and generators, or *)
(* all coroutines and async generators.  One task enters and leaves "app"  *)
(* and the execution scope and executes the plan call after call; a        *)
(* provider or a teardown may raise.                                       *)
(***************************************************************************)
InitRes ==
    /\ phase = "solved"
    /\ params = [c \in 1..5 |->
                   CASE c = 1 -> <<Depends(3, "app", TRUE, 0),
                                   Depends(5, ExecutionScope, TRUE, 0)>>
                     [] c = 3 -> <<Depends(2, "app", TRUE, 0)>>
                     [] c = 5 -> <<Depends(4, "app", FALSE, 0)>>
                     [] OTHER -> <<>>]
    /\ \E a \in {"", "a"} :
           kinds = [c \in 1..5 |->
                      IF c \in {1, 4} THEN a \o "sync" ELSE a \o "syncgen"]
    /\ root = Depends(1, ExecutionScope, TRUE, 0)
    /\ binds = NoBinds
    /\ solved = Solve(binds, params, root)
    /\ opened = [c \in 1..5 |-> 0]
    /\ NoScopes
    /\ IdleCalls

\* container.execute_sync(solved) or `await container.execute_async(solved)`
ExecuteRes(validate) ==
    BeginExecute(Framework, IF IsAsync(root) THEN "async" ELSE "sync",
                 NoCache, validate)

\* The scope entries and the calls made so far
Operations == nenters + TotalCalls

NextRes ==
    \/ /\ nenters < MaxScopeEntries
       /\ Operations < MaxOperations
       /\ EnterGlobal(Framework, "app")
    \/ /\ nenters < MaxScopeEntries
       /\ Operations < MaxOperations
       /\ EnterLocal(Framework, ExecutionScope)
    \/ ExitScope(Framework)
    \/ ExitScopeRaising(Framework)
    \/ \E validate \in BOOLEAN :
           Operations < MaxOperations /\ ExecuteRes(validate)
    \/ ComputeSync(Framework)
    \/ RaiseSync(Framework)
    \/ StartAsync(Framework)
    \/ FinishAsync(Framework)
    \/ RaiseAsync(Framework)
    \/ DrainAsync(Framework)
    \/ AbortExecute(Framework)
    \/ FinishExecute(Framework)

SpecRes == InitRes /\ [][NextRes]_vars

(***************************************************************************)
(* The diamond with an unshared provider: D (callable 4) takes B and C     *)
(* (callables 2 and 3), which both take A (callable 1): C through a        *)
(* descriptor declared shared=False, B through one declared shared=False   *)
(* or left shared.  The two parameters hold a descriptor each, or one and  *)
(* the same descriptor object; the descriptors declared shared=False are   *)
(* numbered 1 and 2, a shared one 0.  "app" is entered and the plan is     *)
(* executed call after call.                                               *)
(***************************************************************************)
InitDiamond ==
    /\ phase = "solved"
    /\ \E s \in {"app", ExecutionScope}, i \in 0..2, j \in 1..2 :
           params = <<<<>>,
                      <<Depends(1, s, i = 0, i)>>,
                      <<Depends(1, s, FALSE, j)>>,
                      <<Depends(2, ExecutionScope, TRUE, 0),
                        Depends(3, ExecutionScope, TRUE, 0)>>>>
    /\ \E k \in {"sync", "async"} : kinds = [c \in 1..4 |-> k]
    /\ root = Depends(4, ExecutionScope, TRUE, 0)
    /\ binds = NoBinds
    /\ solved = Solve(binds, params, root)
    /\ frames = [f \in FrameIds |->
                   IF f = <<1, 1>> THEN NewFrame("app", TRUE) ELSE DeadFrame]
    /\ rootstate = <<<<1, 1>>>>
    /\ shadow = [p \in Procs |-> <<>>]
    /\ cms = [p \in Procs |->
                IF p = 1
                THEN <<[kind |-> "global", scope |-> "app", fid |-> <<1, 1>>]>>
                ELSE <<>>]
    /\ opened = [c \in 1..4 |-> 0]
    /\ IdleCalls

NextDiamond ==
    \/ ExecuteRes(TRUE)
    \/ ComputeSync(Framework)
    \/ StartAsync(Framework)
    \/ FinishAsync(Framework)
    \/ FinishExecute(Framework)

SpecDiamond == InitDiamond /\ [][NextDiamond]_vars

(***************************************************************************)
(* An async resource under a scope entered with `with` or `async with`: a  *)
(* coroutine handler (callable 1, execution scope) takes an async          *)
(* generator of scope "app" (callable 2), which takes callable 3 of scope  *)
(* "app", and callable 4 of the execution scope.  Callable 3 is a          *)
(* function, a coroutine or an async generator, callable 4 a coroutine, a  *)
(* generator or an async generator.  "app" was entered with `with`, which  *)
(* gives it a synchronous release stack, or with `async with`; the plan is *)
(* executed with execute_async, call after call.                           *)
(***************************************************************************)
InitStacks ==
    /\ phase = "solved"
    /\ params = <<<<Depends(2, "app", TRUE, 0),
                    Depends(4, ExecutionScope, TRUE, 0)>>,
                  <<Depends(3, "app", TRUE, 0)>>,
                  <<>>,
                  <<>>>>
    /\ \E k3 \in {"sync", "async", "asyncgen"},
          k4 \in {"async", "syncgen", "asyncgen"} :
           kinds = <<"async", "asyncgen", k3, k4>>
    /\ root = Depends(1, ExecutionScope, TRUE, 0)
    /\ binds = NoBinds
    /\ solved = Solve(binds, params, root)
    /\ \E a \in BOOLEAN :
           frames = [f \in FrameIds |->
                       IF f = <<1, 1>> THEN NewFrame("app", a) ELSE DeadFrame]
    /\ rootstate = <<<<1, 1>>>>
    /\ shadow = [p \in Procs |-> <<>>]
    /\ cms = [p \in Procs |->
                IF p = 1
                THEN <<[kind |-> "global", scope |-> "app", fid |-> <<1, 1>>]>>
                ELSE <<>>]
    /\ opened = [c \in 1..4 |-> 0]
    /\ IdleCalls

NextStacks ==
    \/ \E validate \in BOOLEAN : ExecuteRes(validate)
    \/ ComputeSync(Framework)
    \/ StartAsync(Framework)
    \/ FinishAsync(Framework)
    \/ FinishExecute(Framework)

SpecStacks == InitStacks /\ [][NextStacks]_vars

(***************************************************************************)
(* What the declared graph holds, read off the declarations alone.         *)
(***************************************************************************)
\* Every descriptor occurrence reachable from the root
RECURSIVE ReachFrom(_, _, _)
ReachFrom(bnd, prm, seen) ==
    LET more == seen \cup UNION {SeqToSet(get_params(bnd, prm, d)) : d \in seen}
    IN  IF more = seen THEN seen ELSE ReachFrom(bnd, prm, more)

Occurrences == ReachFrom(binds, params, {root})

\* The callables reachable from callable c through one parameter or more
RECURSIVE CallsBelow(_, _)
CallsBelow(c, seen) ==
    LET from == IF seen = {} THEN {c} ELSE seen
        more == seen \cup {d.call : d \in UNION {SeqToSet(params[x]) : x \in from}}
    IN  IF more = seen THEN seen ELSE CallsBelow(c, more)

OnCycle(c) == c \in CallsBelow(c, {})

ScopeConflictReachable ==
    \E a \in Occurrences, b \in Occurrences :
        Equivalent(a, b) /\ a.scope # b.scope

CyclicGraph == \E d \in Occurrences : OnCycle(d.call)

(***************************************************************************)
(* C4: solve never returns a plan when two equivalent descriptors with     *)
(* different scopes are reachable from the root, wherever the two          *)
(* occurrences lie in the graph (the claim also names the error raised).   *)
(***************************************************************************)
C4_ScopeConflictNeverSolved ==
    (phase = "solved" /\ ScopeConflictReachable) => solved.status # "ok"

(***************************************************************************)
(* C5 as stated: solve on a graph that contains a cycle fails with         *)
(* CircularDependencyError.                                                *)
(***************************************************************************)
C5_CycleAlwaysCircularError ==
    (phase = "solved" /\ CyclicGraph) => solved.status = "Circular"

(***************************************************************************)
(* C5 amended: solve on a graph that contains a cycle never returns a      *)
(* plan; it fails with CircularDependencyError, or with the scope-conflict *)
(* error when the graph also holds two equivalent descriptors with         *)
(* different scopes and the walk meets them.                               *)
(***************************************************************************)
C5_CycleNeverSolved ==
    (phase = "solved" /\ CyclicGraph) =>
        /\ solved.status \in {"Circular", "ScopeConflict"}
        /\ solved.status = "ScopeConflict" => ScopeConflictReachable

\* A cycle that does not pass through the root was rejected as circular
C5_Witness ==
    /\ phase = "solved"
    /\ CyclicGraph
    /\ ~OnCycle(root.call)
    /\ solved.status = "Circular"

(***************************************************************************)
(* C1: in one execute call each task's provider is invoked at most once,   *)
(* however many dependants or parameters name it, and every dependant      *)
(* that names it is given the one value stored for it.                     *)
(***************************************************************************)
\* The arguments value v of task t was called with are the stored results of
\* the tasks its parameters name
GivenStored(p, t, v) ==
    \A j \in 1..Len(solved.tasks[t].dependencies) :
        /\ solved.tasks[t].dependencies[j] \in DOMAIN results[p]
        /\ v.args[j] = results[p][solved.tasks[t].dependencies[j]]

C1_InvokedAtMostOnce ==
    \A p \in Procs :
        /\ \A t \in DOMAIN invoked[p] : invoked[p][t] <= 1
        /\ pc[p] = "exec" =>
              /\ \A t \in DOMAIN results[p] :
                     invoked[p][t] > 0 => GivenStored(p, t, results[p][t])
              /\ \A f \in inflight[p] : GivenStored(p, f.task, f.value)

\* The tasks that name t among their parameters
NamedBy(t) == {d \in DOMAIN solved.tasks : t \in solved.dependency_dag[d]}

\* A call returned in which a task named by two dependants, and a task
\* named by two parameters of one dependant, were each invoked once
C1_Witness ==
    /\ phase = "solved"
    /\ outcome[1].status = "ok"
    /\ \E t \in DOMAIN solved.tasks :
           Cardinality(NamedBy(t)) >= 2 /\ invoked[1][t] = 1
    /\ \E d \in DOMAIN solved.tasks :
           /\ Len(solved.tasks[d].dependencies) = 2
           /\ solved.tasks[d].dependencies[1] = solved.tasks[d].dependencies[2]
           /\ invoked[1][solved.tasks[d].dependencies[1]] = 1

(***************************************************************************)
(* C2: a task is handed to the executor only when its counter of           *)
(* remaining prerequisites is zero and every prerequisite has stored its   *)
(* result, so gather_params never reads a missing result, whatever the     *)
(* order in which the executor advances independent tasks.                 *)
(***************************************************************************)
C2_InvokedAfterPrerequisites ==
    \A p \in Procs :
        /\ outcome[p].status # "KeyError"
        /\ pc[p] = "exec" =>
              \A i \in 1..Len(queue[p]) :
                  queue[p][i] # Sentinel =>
                      /\ queue[p][i] \in DOMAIN dependency_counts[p]
                      /\ dependency_counts[p][queue[p][i]] = 0
                      /\ HasParams(results[p], solved.tasks[queue[p][i]])

\* A task with two prerequisites is queued after both, advanced
\* concurrently by the executor, have stored their results
C2_Witness ==
    /\ pc[1] = "exec"
    /\ mode[1] = "async"
    /\ \E i \in 1..Len(queue[1]) :
           /\ queue[1][i] # Sentinel
           /\ Cardinality(solved.dependency_dag[queue[1][i]]) = 2
           /\ \A d \in solved.dependency_dag[queue[1][i]] :
                  /\ d \in DOMAIN results[1]
                  /\ results[1][d].inst = 1
                  /\ solved.dependency_dag[d] # {}

(***************************************************************************)
(* C3: with no cached values and no overrides, execute(solve(d)) on an     *)
(* acyclic graph returns the value of d's provider applied to the values   *)
(* of its prerequisites, each obtained the same way.                       *)
(***************************************************************************)
\* The value of callable c, read off the declarations
RECURSIVE Expected(_)
Expected(c) ==
    [call |-> c,
     args |-> [j \in 1..Len(params[c]) |-> Expected(params[c][j].call)]]

\* A returned value without the marks that tell provider calls apart
RECURSIVE Strip(_)
Strip(v) ==
    [call |-> v.call, args |-> [j \in 1..Len(v.args) |-> Strip(v.args[j])]]

C3_ExecuteReturnsProviderValue ==
    (phase = "solved" /\ outcome[1].status # "none") =>
        \/ /\ outcome[1].status = "ok"
           /\ Strip(outcome[1].value) = Expected(root.call)
        \/ /\ outcome[1].status = "ExecutorKindMismatch"
           /\ kinds[root.call] = "async"

\* The chain C(b: B), B(a: A), A() was executed and returned C(B(A()))
C3_Witness ==
    /\ outcome[1].status = "ok"
    /\ Len(outcome[1].value.args) = 1
    /\ Len(outcome[1].value.args[1].args) = 1
    /\ outcome[1].value.args[1].args[1].args = <<>>

(***************************************************************************)
(* The request scenario: caching, concurrent calls and scopes.             *)
(***************************************************************************)
ResourceTask == binds[Resource]

RequestTask == binds[Request]

\* The tasks of p's running call that were resolved from the cache when
\* the call was planned
FromCache(p) ==
    {t \in DOMAIN results[p] :
        invoked[p][t] = 0 /\ t.call \notin DOMAIN values[p]}

\* The tasks of p's running call that are scheduled or running
Scheduled(p) ==
    DOMAIN dependency_counts[p] \cup (SeqToSet(queue[p]) \ {Sentinel})
        \cup {f.task : f \in inflight[p]}

\* A successful call of p returns in this step: every provider it was to
\* cache is in the cache of the frame of its scope, if that frame stays
WrittenAtEnd(p) ==
    (pc[p] = "exec" /\ pc'[p] = "idle" /\ outcome'[p].status = "ok") =>
        \A i \in 1..Len(to_cache[p]) :
            LET t  == to_cache[p][i]
                st == IF shadow'[p] = <<>> THEN rootstate' ELSE Last(shadow'[p])
            IN  t.scope \in Scopes(frames', st) =>
                    /\ t.call \in DOMAIN frames'[FrameOf(frames', st, t.scope)].cache
                    /\ frames'[FrameOf(frames', st, t.scope)].cache[t.call]
                           = results[p][t]

\* A call of p starts in this step: every shared provider cached in a frame
\* on p's stack is resolved with the cached value and is not scheduled
ReusedAtStart(p) ==
    (ncalls'[p] = ncalls[p] + 1) =>
        \A t \in DOMAIN solved.tasks :
            (/\ t.shared
             /\ t.call \notin DOMAIN values'[p]
             /\ cache_contains(frames, State(p), t.call)
             /\ outcome'[p].status # "ScopeNotFound" \/ pc'[p] = "exec")
            => IF pc'[p] = "exec"
               THEN /\ t \in DOMAIN results'[p]
                    /\ results'[p][t] = cache_get(frames, State(p), t.call)
                    /\ t \notin DOMAIN dependency_counts'[p]
                    /\ t \notin SeqToSet(queue'[p])
               ELSE t = solved.dependency =>
                        outcome'[p] = Outcome("ok",
                            cache_get(frames, State(p), t.call), "None")

\* While a call runs, what it took from the cache is never scheduled, is
\* the entry of a frame on the stack, and has not been torn down
CachedStaysCached(p) ==
    pc[p] = "exec" =>
        \A t \in FromCache(p) :
            /\ t \notin Scheduled(p)
            /\ cache_contains(frames, State(p), t.call)
            /\ results[p][t] = cache_get(frames, State(p), t.call)
            /\ results[p][t] \notin SeqToSet(teardowns)

\* C6: a shared provider reached by a successful call is written to the
\* cache of the frame of its scope when the call ends; a later call made
\* while that frame is on the stack does not invoke it again and uses the
\* cached value; a value of a frame that has been exited is not reused.
C6_SharedCachedInScopeFrame ==
    /\ [][WrittenAtEnd(Framework) /\ ReusedAtStart(Framework)]_vars
    /\ [](CachedStaysCached(Framework))

\* The second call runs with the resource the first call opened
C6_Witness ==
    /\ pc[Framework] = "exec"
    /\ ncalls[Framework] = 2
    /\ opened[Resource] = 1
    /\ ResourceTask \in FromCache(Framework)
    /\ solved.dependency \in Scheduled(Framework)

\* C7: with "app" entered globally, concurrent execute_async calls open the
\* shared resource once: the release stack of the "app" frame never holds
\* two values of one provider.
C7_ResourceOpenedOnce ==
    \A f \in FrameIds :
        (frames[f].live /\ frames[f].scope = "app") =>
            \A i, j \in 1..Len(frames[f].release) :
                frames[f].release[i].call = frames[f].release[j].call => i = j

\* Task p enters or leaves a local scope in this step
LocalScopeStep(p) ==
    \/ /\ Len(cms'[p]) = Len(cms[p]) + 1
       /\ Last(cms'[p]).kind = "local"
    \/ /\ Len(cms[p]) = Len(cms'[p]) + 1
       /\ Last(cms[p]).kind = "local"

\* Task q sees the same stack, caches and release stacks after the step
SameView(q) ==
    /\ (IF shadow'[q] = <<>> THEN rootstate' ELSE Last(shadow'[q])) = State(q)
    /\ \A i \in 1..Len(State(q)) : frames'[State(q)[i]] = frames[State(q)[i]]

\* Task p is refused a scope in this step
Refused(p) ==
    /\ nenters' = nenters + 1
    /\ cms' = cms
    /\ outcome'[p] # outcome[p]

\* C8: a task that enters or leaves a local scope changes nothing a sibling
\* sees; no task sees the local frame of another; and a task is refused a
\* scope as a duplicate only if the token is on its own stack.
C8_LocalScopesIsolated ==
    /\ [][\A p \in Procs :
            /\ LocalScopeStep(p) => \A q \in Procs \ {p} : SameView(q)
            /\ Refused(p) =>
                   /\ outcome'[p].status = "DuplicateScope"
                   /\ outcome'[p].scope \in Scopes(frames, State(p))]_vars
    /\ [](\A p \in Procs : \A q \in Procs \ {p} : \A i \in 1..Len(cms[p]) :
            cms[p][i].kind = "local" =>
                cms[p][i].fid \notin SeqToSet(State(q)))

\* Two sibling tasks are each inside a local "request" scope of their own
C8_Witness ==
    \E p \in Procs : \E q \in Procs \ {p} :
        /\ cms[p] # <<>> /\ Last(cms[p]) =
               [kind |-> "local", scope |-> "request", fid |-> Last(State(p))]
        /\ cms[q] # <<>> /\ Last(cms[q]) =
               [kind |-> "local", scope |-> "request", fid |-> Last(State(q))]

\* C9: a scope entered globally is on the stack of every task, those inside
\* a local scope of their own included, until it is exited.
C9_GlobalScopeSeenByAll ==
    \A p \in Procs : \A q \in Procs : \A i \in 1..Len(cms[p]) :
        cms[p][i].kind = "global" => cms[p][i].fid \in SeqToSet(State(q))

\* The last call of task p has returned the value of a controller it invoked
Returned(p) ==
    /\ pc[p] = "idle"
    /\ outcome[p].status = "ok"
    /\ invoked[p][solved.dependency] = 1

\* C10: with concurrent calls that each run in a local "request" scope with
\* a Request of their own in `values`, the controller of every call is
\* invoked with, and returns, the Request of its own call, so the calls
\* observe distinct Requests.
C10_OwnOverride ==
    \A p \in Procs :
        /\ \A f \in inflight[p] :
               f.task = solved.dependency =>
                   f.value.args[1] = values[p][Request]
        /\ Returned(p) =>
               /\ outcome[p].value.args[1] = values[p][Request]
               /\ \A q \in Procs \ {p} :
                      Returned(q) =>
                          outcome[q].value.args[1] # outcome[p].value.args[1]

\* The controllers of two concurrent calls are running, each with a Request
C10_Witness ==
    \E p \in Procs : \E q \in Procs \ {p} :
        /\ \E f \in inflight[p] : f.task = solved.dependency
        /\ \E f \in inflight[q] : f.task = solved.dependency
        /\ values[p][Request] # values[q][Request]

(***************************************************************************)
(* Resources and their teardowns.                                          *)
(***************************************************************************)
\* The frames that are live before a step and gone after it
Dying == {f \in FrameIds : frames[f].live /\ ~frames'[f].live}

IsPrefix(s, t) == Len(s) <= Len(t) /\ SubSeq(t, 1, Len(s)) = s

\* The generator tasks whose results task p stores in a step of its call
NewlyOpened(p) ==
    {t \in DOMAIN results'[p] \ DOMAIN results[p] :
        pc[p] # "idle" /\ pc'[p] # "idle" /\ IsGenerator(t)}

\* A resource stored in a step is pushed last on the release stack of the
\* frame of its declared scope, and on no other
RegisteredOnOwnScope(p) ==
    \A t \in NewlyOpened(p) :
        LET own_frame == FrameOf(frames, State(p), t.scope)
        IN  \A f \in FrameIds :
                frames'[f].release =
                    IF f = own_frame
                    THEN Append(frames[f].release, results'[p][t])
                    ELSE frames[f].release

\* Teardowns run only in a step in which a frame is exited, and then they are
\* those of that frame's release stack, last registered first
TornDownAtExit ==
    /\ Dying = {} => teardowns' = teardowns
    /\ \A f \in Dying :
           /\ Dying = {f}
           /\ teardowns' = teardowns \o Reverse(frames[f].release)
    /\ \A f \in FrameIds \ Dying :
           frames[f].live => IsPrefix(frames[f].release, frames'[f].release)

\* No teardown has run twice, and none that has run is still registered
TornDownOnce ==
    /\ \A i, j \in 1..Len(teardowns) : teardowns[i] = teardowns[j] => i = j
    /\ \A f \in FrameIds : frames[f].live =>
           SeqToSet(frames[f].release) \cap SeqToSet(teardowns) = {}

\* C11: a resource provider's teardown is registered on the release stack of
\* its own declared scope; it runs at most once, exactly when that scope's
\* frame is exited (not at the end of the call when the scope outlives the
\* call), and the teardowns of one scope run in reverse order of acquisition
C11_TeardownAtOwnScopeExit ==
    /\ [][TornDownAtExit /\ \A p \in Procs : RegisteredOnOwnScope(p)]_vars
    /\ []TornDownOnce

\* Scope "app" outlived a call and was exited: the resource acquired second
\* (callable 3) was torn down right before the one acquired first
C11_Witness ==
    /\ ncalls[Framework] > 0
    /\ \E i \in 1..(Len(teardowns) - 1) :
           /\ teardowns[i].call = 3
           /\ teardowns[i + 1].call = 2
           /\ teardowns[i].args = <<teardowns[i + 1]>>

\* The resources registered on the release stacks of the live frames
Held == UNION {SeqToSet(frames[f].release) : f \in {g \in FrameIds : frames[g].live}}

\* Task p's call ends in this step with an error
CallFails(p) ==
    pc[p] # "idle" /\ pc'[p] = "idle" /\ outcome'[p].status # "ok"

\* No step drops a registered resource without running its teardown
NothingLeaks == Held \subseteq Held' \cup SeqToSet(teardowns')

\* A call that fails exits the execution scope it entered: the resources of
\* that frame are torn down, those of the outer frames stay registered
FailedCallUnwinds(p) ==
    CallFails(p) =>
        /\ own[p] =>
              /\ ~frames'[Last(State(p))].live
              /\ SeqToSet(frames[Last(State(p))].release)
                     \subseteq SeqToSet(teardowns')
        /\ \A f \in FrameIds :
              (frames[f].live /\ ~(own[p] /\ f = Last(State(p)))) =>
                  /\ frames'[f].live
                  /\ IsPrefix(frames[f].release, frames'[f].release)

\* A scope exit on which a teardown raises has still run every teardown of
\* the frame
FailedTeardownUnwinds(p) ==
    (outcome'[p].status = "TeardownError" /\ outcome'[p] # outcome[p]) =>
        \E f \in Dying :
            SeqToSet(frames[f].release) \subseteq SeqToSet(teardowns')

\* C12: resources are released on every exit path: when a later provider of
\* the call raises, or the scope is left by an error, every resource already
\* opened in a scope has its teardown run when that scope exits, and a
\* failing teardown does not stop the other teardowns of the scope
C12_ReleasedOnEveryExitPath ==
    [][/\ NothingLeaks
       /\ \A p \in Procs : FailedCallUnwinds(p) /\ FailedTeardownUnwinds(p)]_vars

\* The only call made failed with a provider's error after resources were
\* opened in the execution scope and in "app"; both have been torn down
C12_Witness ==
    /\ ncalls[Framework] = 1
    /\ pc[Framework] = "idle"
    /\ outcome[Framework].status = "ProviderError"
    /\ \E i, j \in 1..Len(teardowns) :
           teardowns[i].call = 5 /\ teardowns[j].call = 2
    /\ Held = {}

(***************************************************************************)
(* Scope entry.                                                            *)
(***************************************************************************)
\* No two frames of a state carry the same token
NoTokenTwice(st) ==
    \A i, j \in 1..Len(st) : frames[st[i]].scope = frames[st[j]].scope => i = j

\* Task p was refused the entry of a scope in this step
RefusedEntry(p) ==
    /\ outcome'[p].status = "DuplicateScope"
    /\ outcome'[p].scope \in Scopes(frames, State(p))
    /\ UNCHANGED <<frames, rootstate, shadow, cms>>

\* Task p entered a scope in this step: one frame more on the stack it sees,
\* under a token that stack did not have
Entered(p) ==
    /\ Len(cms'[p]) = Len(cms[p]) + 1
    /\ Last(cms'[p]).scope \notin Scopes(frames, State(p))
    /\ State(p)' = Append(State(p), Last(cms'[p]).fid)
    /\ frames'[Last(cms'[p]).fid].scope = Last(cms'[p]).scope
    /\ outcome' = outcome

\* C13: entering a scope, global or local, whose token is already on the
\* stack the caller sees fails with DuplicateScopeError and pushes no frame,
\* so no stack ever holds a token twice; also when the context was made
\* before the token was entered
C13_NoDuplicateScope ==
    /\ [][nenters' # nenters => \E p \in Procs : RefusedEntry(p) \/ Entered(p)]_vars
    /\ [](\A p \in Procs : NoTokenTwice(State(p)) /\ NoTokenTwice(rootstate))

\* A task under two scopes was refused a third entry
C13_Witness ==
    \E p \in Procs :
        /\ outcome[p].status = "DuplicateScope"
        /\ outcome[p].scope \in Scopes(frames, State(p))
        /\ Len(State(p)) = 2
        /\ nenters = MaxEnters

(***************************************************************************)
(* Scope validation.                                                       *)
(***************************************************************************)
\* A descriptor of the plan has a scope that is neither on the stack task p
\* sees nor the execution scope the call enters
ScopeMissing(p) ==
    \E t \in DOMAIN solved.tasks :
        t.scope \notin Scopes(frames, State(p)) \cup {ExecutionScope}

\* Task p calls execute in this step
CallStarts(p) == pc[p] = "idle" /\ ncalls'[p] = ncalls[p] + 1

\* C14: with validate_scopes true, executing a plan with a descriptor whose
\* scope is not on the active scope stack fails with ScopeNotFoundError,
\* before any provider of the plan is invoked and before any cache is written
C14_MissingScopeFailsFirst ==
    [][\A p \in Procs :
          (CallStarts(p) /\ ScopeMissing(p)) =>
              /\ outcome'[p].status = "ScopeNotFound"
              /\ pc'[p] = "idle"
              /\ frames' = frames
              /\ opened' = opened
              /\ \A t \in DOMAIN solved.tasks : invoked'[p][t] = 0]_vars

\* A call made under "app" but outside "request" was refused
C14_Witness ==
    \E p \in Procs :
        /\ ncalls[p] > 0
        /\ pc[p] = "idle"
        /\ outcome[p].status = "ScopeNotFound"
        /\ Scopes(frames, State(p)) = {"app"}
        /\ \A c \in DOMAIN opened : opened[c] = 0

(***************************************************************************)
(* The execution scope of a call.                                          *)
(***************************************************************************)
\* The stack task p saw before it entered its innermost local scope
Outer(p) ==
    IF Len(shadow[p]) = 1 THEN rootstate ELSE shadow[p][Len(shadow[p]) - 1]

\* Task p's call begins in this step and goes on
CallBegins(p) == pc[p] = "idle" /\ pc'[p] # "idle"

\* Task p's call ends in this step, by return or by error
CallEnds(p) == pc[p] # "idle" /\ pc'[p] = "idle"

\* A call that finds the execution scope on the stack leaves the stack alone;
\* one that does not pushes a frame for it on a stack of its own
ExecutionScopeEntered(p) ==
    CallBegins(p) =>
        IF ExecutionScope \in Scopes(frames, State(p))
        THEN /\ State(p)' = State(p)
             /\ UNCHANGED <<frames, shadow, rootstate>>
             /\ ~own'[p]
        ELSE /\ own'[p]
             /\ shadow'[p] = Append(shadow[p], State(p)')
             /\ Len(State(p)') = Len(State(p)) + 1
             /\ SubSeq(State(p)', 1, Len(State(p))) = State(p)
             /\ frames'[Last(State(p)')].scope = ExecutionScope
             /\ rootstate' = rootstate

\* The stack does not change while the call runs
StackKeptDuringCall(p) ==
    (pc[p] # "idle" /\ pc'[p] # "idle") => State(p)' = State(p) /\ own'[p] = own[p]

\* The end of the call exits the execution scope if the call entered it, and
\* nothing else
ExecutionScopeExited(p) ==
    CallEnds(p) =>
        IF own[p]
        THEN /\ State(p)' = Outer(p)
             /\ ~frames'[Last(State(p))].live
             /\ Dying = {Last(State(p))}
        ELSE /\ State(p)' = State(p)
             /\ Dying = {}

\* A call that is over within its first step leaves the stack alone
ImmediateCallKeepsStack(p) ==
    (pc[p] = "idle" /\ pc'[p] = "idle" /\ ncalls'[p] # ncalls[p]) =>
        State(p)' = State(p) /\ Dying = {}

\* While a call runs in a scope it entered, that scope is the execution scope
\* on top of the stack the caller had
OwnScopeOnTop(p) ==
    (pc[p] # "idle" /\ own[p]) =>
        /\ shadow[p] # <<>>
        /\ State(p) = Append(Outer(p), Last(State(p)))
        /\ frames[Last(State(p))].scope = ExecutionScope
        /\ ExecutionScope \notin Scopes(frames, Outer(p))

\* C15: execute_sync / execute_async: if the execution scope is on the scope
\* stack, the call neither enters nor exits it; otherwise the call enters it
\* as a local scope and exits it when the call ends.  Either way the stack
\* after the call, returned or raised, is the stack before it
C15_ExecutionScopeRestored ==
    /\ [][\A p \in Procs : /\ ExecutionScopeEntered(p)
                           /\ StackKeptDuringCall(p)
                           /\ ExecutionScopeExited(p)
                           /\ ImmediateCallKeepsStack(p)]_vars
    /\ [](\A p \in Procs : OwnScopeOnTop(p))

\* A call ran in an execution scope entered before it: its result is cached
\* in that frame, which is still on the stack after the call
C15_Witness ==
    /\ pc[Framework] = "idle"
    /\ outcome[Framework].status = "ok"
    /\ ExecutionScope \in Scopes(frames, State(Framework))
    /\ root.call \in DOMAIN
           frames[FrameOf(frames, State(Framework), ExecutionScope)].cache

(***************************************************************************)
(* Binds.                                                                  *)
(***************************************************************************)
\* What a declared descriptor stands for in the plan: the descriptor its
\* callable is bound to, whatever its own scope and shared flag
Swapped(d) == IF d.call \in DOMAIN binds THEN binds[d.call] ELSE d

\* The task of the plan that a descriptor is solved as
TaskFor(d) ==
    CHOOSE t \in DOMAIN solved.tasks : Equivalent(t, d)

\* The parameters of task d, in the order they are declared, are the tasks of
\* the descriptors declared for its callable, each swapped for its bind
ParamsSwapped(d) ==
    /\ Len(solved.tasks[d].dependencies) = Len(params[d.call])
    /\ \A j \in 1..Len(params[d.call]) :
           /\ solved.tasks[d].dependencies[j] \in DOMAIN solved.tasks
           /\ Equivalent(solved.tasks[d].dependencies[j],
                         Swapped(params[d.call][j]))

\* C16: at solve time the root descriptor and every parameter descriptor
\* whose callable is bound is replaced by the bound descriptor, found by the
\* callable alone (the replaced descriptor's scope and shared flag play no
\* part); the parameter keeps its place, and the dependencies solved are
\* those of the bound descriptor
C16_BindsReplaceByCallable ==
    (phase = "solved" /\ solved.status = "ok") =>
        /\ solved.dependency = Swapped(root)
        /\ solved.dependency \in DOMAIN solved.tasks
        /\ \A d \in DOMAIN solved.tasks :
               /\ ParamsSwapped(d)
               /\ d.site = 0 => d.call \notin DOMAIN binds

\* Callable 2, declared unshared in scope "request", is bound to a descriptor
\* of callable 3 in scope "app": the plan of root 1 has the bound descriptor
\* in the place of 2, with 3's parameter under it, and no task for 2
C16_Witness ==
    /\ phase = "solved"
    /\ solved.status = "ok"
    /\ DOMAIN binds = {2}
    /\ binds[2].call = 3
    /\ binds[2].scope = "app"
    /\ params[1][1] = Depends(2, "request", FALSE, 0)
    /\ solved.tasks[solved.dependency].dependencies[1] = binds[2]
    /\ solved.tasks[binds[2]].dependencies = <<TaskFor(params[3][1])>>
    /\ \A d \in DOMAIN solved.tasks : d.call # 2

(***************************************************************************)
(* A provider raises.                                                      *)
(***************************************************************************)
\* The caches of the frames that are live after the step are what they were
CachesKept ==
    \A f \in FrameIds : frames'[f].live => frames'[f].cache = frames[f].cache

\* Task p's call is running before and after the step
CallRuns(p) == pc[p] # "idle" /\ pc'[p] # "idle"

\* C17: if a provider raises during execute_sync / execute_async, the call
\* is aborted, the caller receives the provider's error, and the call commits
\* nothing to any scope cache: the shared results it had computed are not
\* written, the caches are as they were before the call
C17_FailedCallCommitsNothing ==
    [][\A p \in Procs :
          /\ (CallRuns(p) \/ CallFails(p)) => CachesKept
          /\ (pc[p] = "failing" /\ pc'[p] # "failing") =>
                 /\ pc'[p] = "idle"
                 /\ outcome'[p].status = "ProviderError"
                 /\ outcome'[p].value = NoValue]_vars

\* The only call made opened the shared resource of callable 2 in "app" and
\* then failed: "app" is still live, holds the resource, and has cached
\* nothing
C17_Witness ==
    /\ ncalls[Framework] = 1
    /\ pc[Framework] = "idle"
    /\ outcome[Framework].status = "ProviderError"
    /\ "app" \in Scopes(frames, State(Framework))
    /\ \E i \in 1..Len(frames[FrameOf(frames, State(Framework), "app")].release) :
           frames[FrameOf(frames, State(Framework), "app")].release[i].call = 2
    /\ frames[FrameOf(frames, State(Framework), "app")].cache = NoCache

(***************************************************************************)
(* Unshared providers.                                                     *)
(***************************************************************************)
\* How often the provider of callable c was invoked in task p's call
InvocationsOf(p, c) ==
    LET RECURSIVE Sum(_)
        Sum(S) == IF S = {} THEN 0
                  ELSE LET t == CHOOSE x \in S : TRUE
                       IN  invoked[p][t] + Sum(S \ {t})
    IN  Sum({t \in DOMAIN invoked[p] : t.call = c})

\* Task p's last call has returned a result
CallReturned(p) ==
    ncalls[p] > 0 /\ pc[p] = "idle" /\ outcome[p].status = "ok"

\* The parameters of B and C hold two descriptors of A, not one object
TwoDescriptors == params[2][1] # params[3][1]

\* A is declared shared=False wherever it is declared
DeclaredUnshared == params[2][1].site # 0 /\ params[3][1].site # 0

\* C18 as stated: in the diamond A, B(a), C(a), D(b, c) with A declared
\* shared=false, one execute call on root D invokes A twice
C18_UnsharedInvokedTwice ==
    (DeclaredUnshared /\ CallReturned(Framework)) =>
        InvocationsOf(Framework, 1) = 2

\* C18 amended: A is invoked once per descriptor of A in the plan: twice
\* when B and C each declare their own, with B and C given a value each,
\* and once when both parameters hold the same descriptor object
C18_UnsharedInvokedPerDescriptor ==
    (DeclaredUnshared /\ CallReturned(Framework)) =>
        /\ InvocationsOf(Framework, 1) = IF TwoDescriptors THEN 2 ELSE 1
        /\ LET d == outcome[Framework].value
           IN  (d.args[1].args[1] # d.args[2].args[1]) = TwoDescriptors

\* A call on the diamond with two descriptors of A returned: A ran twice
C18_Witness ==
    /\ CallReturned(Framework)
    /\ DeclaredUnshared
    /\ TwoDescriptors
    /\ InvocationsOf(Framework, 1) = 2
    /\ Cardinality(DOMAIN solved.tasks) = 5

\* The descriptors of the plan declared shared=False
Unshared == {t \in DOMAIN solved.tasks : ~t.shared}

\* A step writes a cache entry only at the end of a call that returns, and
\* then the entry is the result of a shared descriptor of the plan, never
\* that of an unshared one
OnlySharedCommitted ==
    \A f \in FrameIds : \A c \in DOMAIN frames'[f].cache :
        (c \notin DOMAIN frames[f].cache \/ frames'[f].cache[c] # frames[f].cache[c])
        => \E p \in Procs :
              /\ CallEnds(p)
              /\ outcome'[p].status = "ok"
              /\ \E t \in DOMAIN results[p] :
                     /\ t.call = c
                     /\ t.shared
                     /\ frames'[f].cache[c] = results[p][t]
              /\ \A t \in Unshared \cap DOMAIN results[p] :
                     frames'[f].cache[c] # results[p][t]

\* A result a call holds for an unshared descriptor was computed by that
\* call, whatever the caches hold for its callable
NeverSeeded(p) ==
    \A t \in Unshared :
        (pc[p] # "idle" /\ t \in DOMAIN results[p]) => invoked[p][t] = 1

\* A call that returned has invoked every unshared provider of the plan
InvokedInEachCall(p) ==
    CallReturned(p) => \A t \in Unshared : invoked[p][t] = 1

\* C19: a provider declared shared=false is never written to a scope cache
\* and never seeded from one: each of two calls made one after the other
\* within the same live scope invokes it again, and only shared providers are
\* committed after a call
C19_UnsharedNeverCached ==
    /\ [][OnlySharedCommitted]_vars
    /\ [](\A p \in Procs : NeverSeeded(p) /\ InvokedInEachCall(p))

\* Two calls returned under one "app" frame, with A declared shared by B and
\* shared=False by C: the second call took B's A from the cache of "app" and
\* invoked C's A again, so A has run three times
C19_Witness ==
    /\ ncalls[Framework] = 2
    /\ CallReturned(Framework)
    /\ params[2][1].site = 0
    /\ params[3][1] \in Unshared
    /\ invoked[Framework][params[3][1]] = 1
    /\ invoked[Framework][params[2][1]] = 0
    /\ 1 \in DOMAIN frames[<<1, 1>>].cache
    /\ opened[1] = 3

(***************************************************************************)
(* The terminal sentinel.                                                  *)
(***************************************************************************)
\* The sentinels in the ready queue of task p's call
Sentinels(p) == Len(SelectSeq(queue[p], LAMBDA t : t = Sentinel))

\* Every task of the plan has its result stored in task p's call
AllStored(p) == DOMAIN results[p] = DOMAIN solved.tasks

\* The sentinel is in the queue exactly when every task has stored its
\* result, and then nothing else is queued, in flight or counted
SentinelWhenDone(p) ==
    pc[p] = "exec" =>
        /\ Sentinels(p) <= 1
        /\ Sentinels(p) = 1 <=> AllStored(p)
        /\ Sentinels(p) = 1 =>
              /\ queue[p] = <<Sentinel>>
              /\ inflight[p] = {}
              /\ DOMAIN dependency_counts[p] = {}

\* The step that produces the sentinel is the step in which the last task
\* stores its result
SentinelByLastTask(p) ==
    (pc[p] = "exec" /\ pc'[p] = "exec" /\ Sentinels(p) = 0 /\ Sentinels(p)' = 1)
    => \E t \in DOMAIN solved.tasks :
          /\ t \notin DOMAIN results[p]
          /\ DOMAIN results'[p] = DOMAIN results[p] \cup {t}
          /\ AllStored(p)'

\* C20: in a call that runs the engine the terminal sentinel is produced
\* exactly once, by the last task to finish, and only when every unresolved
\* task of the call has stored its result; never while another task is
\* queued or in flight, also when independent tasks are advanced
\* concurrently
C20_SentinelOnceAtEnd ==
    /\ [][\A p \in Procs : SentinelByLastTask(p)]_vars
    /\ [](\A p \in Procs : SentinelWhenDone(p))

\* An async call on a plan of four tasks has the sentinel as its whole queue
C20_Witness ==
    /\ pc[1] = "exec"
    /\ mode[1] = "async"
    /\ queue[1] = <<Sentinel>>
    /\ Cardinality(DOMAIN solved.tasks) = 4
    /\ Cardinality(solved.dependency_dag[solved.dependency]) = 3

(***************************************************************************)
(* Termination of a call.                                                  *)
(***************************************************************************)
\* The tasks the executor of task p's call has in hand
InFlight(p) == {f.task : f \in inflight[p]}

\* A task without a result whose prerequisites all have one is queued or
\* being computed
ReadyQueued(p) ==
    pc[p] = "exec" =>
        \A t \in DOMAIN solved.tasks \ DOMAIN results[p] :
            solved.dependency_dag[t] \subseteq DOMAIN results[p]
                => t \in SeqToSet(queue[p]) \cup InFlight(p)

\* The call runs under an executor that can run its providers: coroutines
\* are not handed to execute_sync
Runnable(p) == pc[p] = "exec" /\ ~(IsAsync(root) /\ mode[p] = "sync")

\* The call has returned the value of the root, every task computed
Completed(p) ==
    /\ pc[p] = "idle"
    /\ outcome[p].status = "ok"
    /\ outcome[p].value.call = root.call
    /\ \A t \in DOMAIN solved.tasks : invoked[p][t] = 1

\* C21: for a finite acyclic plan whose providers all return, an executor
\* that keeps taking queued tasks and re-feeding the tasks they return
\* eventually computes every unresolved task and receives the sentinel: no
\* task whose prerequisites have all completed stays unqueued, and the call
\* terminates with a result for the root
C21_CallTerminates ==
    /\ [](\A p \in Procs : ReadyQueued(p))
    /\ \A p \in Procs : Runnable(p) ~> Completed(p)

\* A call on a plan of four tasks, the root on top of a chain and a leaf,
\* has returned with every task computed
C21_Witness ==
    /\ Completed(1)
    /\ Cardinality(DOMAIN solved.tasks) = 4
    /\ Len(params[1]) = 2
    /\ \E c \in Providers : c # 1 /\ params[c] # <<>>

(***************************************************************************)
(* Async resources and synchronous release stacks.                         *)
(***************************************************************************)
\* Task t is an async generator whose scope, as task p sees it, has a
\* synchronous release stack
OnSyncStack(p, t) ==
    /\ kinds[t.call] = "asyncgen"
    /\ t.scope \in Scopes(frames, State(p))
    /\ ~frames[FrameOf(frames, State(p), t.scope)].async

\* Task p's call fails in this step with the incompatibility error
FailsIncompatible(p) ==
    /\ pc[p] = "exec"
    /\ pc'[p] = "idle"
    /\ outcome'[p].status = "IncompatibleDependency"

\* The failure is that of the task the executor took, before its provider is
\* called: nothing is opened, invoked or registered, the task has no result
\* and its dependants' counters still count it
RefusedBeforeCall(p) ==
    FailsIncompatible(p) =>
        /\ queue[p] # <<>>
        /\ OnSyncStack(p, Head(queue[p]))
        /\ opened' = opened
        /\ invoked'[p] = invoked[p]
        /\ invoked[p][Head(queue[p])] = 0
        /\ Head(queue[p]) \notin DOMAIN results[p]
        /\ \A d \in SeqToSet(dependants[p][Head(queue[p])]) :
               /\ d \in DOMAIN dependency_counts[p]
               /\ dependency_counts[p][d] =
                      Cardinality(solved.dependency_dag[d] \ DOMAIN results[p])
        /\ \A f \in FrameIds :
               frames'[f].live => /\ frames'[f].release = frames[f].release
                                  /\ frames'[f].cache = frames[f].cache

\* Such a task is never in flight, never has a result, and no resource of
\* its callable is ever opened or registered on the synchronous stack
NeverOpenedOnSyncStack(p) ==
    \A t \in DOMAIN solved.tasks :
        OnSyncStack(p, t) =>
            /\ t \notin DOMAIN results[p]
            /\ t \notin {f.task : f \in inflight[p]}
            /\ opened[t.call] = 0
            /\ \A v \in SeqToSet(frames[FrameOf(frames, State(p),
                                                t.scope)].release) :
                   v.call # t.call

\* C22: an async generator provider computed in a scope whose release stack
\* is synchronous fails with the incompatibility error before the provider
\* is called: no resource is opened, no result is stored for the task, and
\* none of its dependants has its counter decremented
C22_AsyncResourceOnSyncStackRefused ==
    /\ [][\A p \in Procs : RefusedBeforeCall(p)]_vars
    /\ [](\A p \in Procs : NeverOpenedOnSyncStack(p))

\* "app" was entered with `with`: the call computed the coroutine under the
\* async generator, then failed on the generator without opening it
C22_Witness ==
    /\ pc[Framework] = "idle"
    /\ outcome[Framework].status = "IncompatibleDependency"
    /\ ~frames[<<1, 1>>].async
    /\ kinds[3] = "async"
    /\ opened[3] = 1
    /\ opened[2] = 0
    /\ frames[<<1, 1>>].release = <<>>

(***************************************************************************)
(* The counters of a call.                                                 *)
(***************************************************************************)
\* The tasks of the call of p that the executor has been handed: queued,
\* in flight or computed
Handed(p) ==
    (SeqToSet(queue[p]) \ {Sentinel}) \cup {f.task : f \in inflight[p]}
        \cup {t \in DOMAIN solved.tasks : invoked[p][t] > 0}

\* The prerequisites of t that have no value yet: the seeded ones have one
\* from the start, and the set holds a repeated parameter once
Outstanding(p, t) == solved.dependency_dag[t] \ DOMAIN results[p]

\* remaining[t] is the number of outstanding prerequisites, for the tasks
\* not yet handed over and for every other entry of the map
CountersExact(p) ==
    pc[p] = "exec" =>
        /\ \A t \in DOMAIN solved.tasks \ DOMAIN results[p] :
               t \notin Handed(p) =>
                   /\ t \in DOMAIN dependency_counts[p]
                   /\ dependency_counts[p][t] >= 1
        /\ \A t \in DOMAIN dependency_counts[p] :
               /\ dependency_counts[p][t] \in Nat
               /\ dependency_counts[p][t] = Cardinality(Outstanding(p, t))

\* An entry is in the map until its task has computed
KeptUntilComputed(p) ==
    pc[p] = "exec" =>
        DOMAIN solved.tasks \ DOMAIN results[p]
            \subseteq DOMAIN dependency_counts[p]

\* Task s completes in this step of the call of p
Completes(p, s) ==
    /\ pc[p] = "exec"
    /\ pc'[p] = "exec"
    /\ s \notin DOMAIN results[p]
    /\ s \in DOMAIN results'[p]

\* A completion takes one off the counter of each dependant, however many
\* of its parameters name the prerequisite, leaves the other counters alone
\* and removes the entry of the task that computed and no other
DecrementedOnce(p) ==
    \A s \in DOMAIN solved.tasks :
        Completes(p, s) =>
            /\ DOMAIN dependency_counts'[p] = DOMAIN dependency_counts[p] \ {s}
            /\ \A d \in DOMAIN dependency_counts'[p] :
                   dependency_counts'[p][d] =
                       IF s \in solved.dependency_dag[d]
                       THEN dependency_counts[p][d] - 1
                       ELSE dependency_counts[p][d]

\* Between completions the counters do not move
MovedByCompletion(p) ==
    (/\ pc[p] = "exec"
     /\ pc'[p] = "exec"
     /\ DOMAIN results'[p] = DOMAIN results[p])
    => dependency_counts'[p] = dependency_counts[p]

\* C23: during a call, for every task not yet handed to the executor,
\* remaining[t] equals the number of its distinct unresolved prerequisites
\* that have not yet completed; counters never become negative, each
\* prerequisite completion decrements a dependant exactly once, and a task's
\* entry is removed from the counter map only after that task has computed
C23_CountersTrackPrerequisites ==
    /\ [](\A p \in Procs : CountersExact(p) /\ KeptUntilComputed(p))
    /\ [][\A p \in Procs : DecrementedOnce(p) /\ MovedByCompletion(p)]_vars

\* A handler names one prerequisite twice and another once, and a value was
\* supplied for the latter: the one completion of the former has brought the
\* handler's counter from one to zero and the handler into the queue
C23_Witness ==
    /\ pc[1] = "exec"
    /\ values[1] # NoCache
    /\ \E t \in SeqToSet(queue[1]) \cap DOMAIN dependency_counts[1] :
           /\ Len(solved.tasks[t].dependencies) = 3
           /\ Cardinality(solved.dependency_dag[t]) = 2
           /\ dependency_counts[1][t] = 0
           /\ \E s \in solved.dependency_dag[t] : invoked[1][s] = 1
           /\ \E s \in solved.dependency_dag[t] :
                  invoked[1][s] = 0 /\ s \in DOMAIN results[1]

====
